---- MODULE Spec2Model ----
(***************************************************************************)
(* A model of the binary decoding layer of mmd-rs: the fixed-width and     *)
(* length-prefixed text readers, the bounded index readers and the VMD     *)
(* (motion format) header and frame readers.                               *)
(*                                                                         *)
(* A byte source is a sequence of bytes (0..255) with a cursor `pos`, the  *)
(* number of bytes consumed so far.  A decoded string is the sequence of   *)
(* its Unicode scalar values.  A 32-bit float is kept as its bit pattern   *)
(* (f32::from_bits is a bijection on bit patterns).                        *)
(***************************************************************************)
EXTENDS Integers, Sequences, FiniteSets, TLC

VARIABLES
  src,     \* the bytes of the source
  pos,     \* the cursor: how many bytes of src have been consumed
  log,     \* the calls made on the source so far, each with its outcome
  caller   \* what the caller reads the source as

vars == <<src, pos, log, caller>>

(***************************************************************************)
(* Bounds of the model.                                                    *)
(***************************************************************************)
\* longest text prefix / payload enumerated byte by byte
MaxLen == 3
\* largest number of records a generated VMD file declares over all sections
MaxFrames == 2
\* longest string (in characters) of the round-trip inputs
MaxStr == 2

(***************************************************************************)
(* Program constants.                                                      *)
(***************************************************************************)
\* b"Vocaloid Motion Data 0002\0"
VMD_HEADER ==
  <<86, 111, 99, 97, 108, 111, 105, 100, 32, 77, 111, 116, 105, 111, 110, 32,
    68, 97, 116, 97, 32, 48, 48, 48, 50, 0>>

VMD_MODEL_NAME_SIZE == 20

\* let mut buf = [0; 30] in VmdHeader::read
HeaderBufSize == 30

\* read_string(read, 15) in MotionFrame::read
MotionNameSize == 15

\* let mut buf = [0; 64] in MotionFrame::read
InterpolationSize == 64

SkinFrameSize == 23

CameraFrameSize == 61

LightFrameSize == 28

ShadowFrameSize == 9

\* U+FFFD REPLACEMENT CHARACTER, what a lossy decoder puts for malformed input
REPLACEMENT == 65533

(***************************************************************************)
(* Little helpers on byte sequences.                                       *)
(***************************************************************************)
RECURSIVE Repeat(_, _)
Repeat(b, n) == IF n <= 0 THEN <<>> ELSE <<b>> \o Repeat(b, n - 1)

\* the little-endian value of a byte sequence, unsigned (at most 3 bytes
\* here: the values of the model are kept within 32 signed bits)
RECURSIVE LEValue(_)
LEValue(bs) == IF bs = <<>> THEN 0 ELSE Head(bs) + 256 * LEValue(Tail(bs))

\* two's complement reading of an unsigned value of the given width
Signed(v, bits) == IF v >= 2 ^ (bits - 1) THEN v - 2 ^ bits ELSE v

\* An unsigned 32-bit value is kept as its two 16-bit halves.
U32(hi, lo) == [hi |-> hi, lo |-> lo]

\* the u32 of a small natural number
U32Of(n) == U32(n \div 65536, n % 65536)

\* the u32 minus one, for a u32 that is not zero
U32Dec(u) == IF u.lo > 0 THEN U32(u.hi, u.lo - 1) ELSE U32(u.hi - 1, 65535)

\* the four little-endian bytes of a u32
U32Bytes(u) == <<u.lo % 256, u.lo \div 256, u.hi % 256, u.hi \div 256>>

(***************************************************************************)
(* std::io::Read::read_exact on the source: all n bytes or a failure.      *)
(* On success the cursor advances by exactly n.  `pos` of a failure is the *)
(* place the failing read started at.                                      *)
(***************************************************************************)
read_exact(s, p, n) ==
  IF p + n <= Len(s)
    THEN [ok |-> TRUE, bytes |-> SubSeq(s, p + 1, p + n), pos |-> p + n]
    ELSE [ok |-> FALSE, bytes |-> <<>>, pos |-> p]

\* byteorder: read_u32::<LE>
read_u32(s, p) ==
  LET r == read_exact(s, p, 4)
  IN  [ok |-> r.ok,
       v |-> IF r.ok THEN U32(LEValue(SubSeq(r.bytes, 3, 4)),
                              LEValue(SubSeq(r.bytes, 1, 2)))
                     ELSE U32(0, 0),
       pos |-> r.pos]

\* byteorder: read_i32::<LE>
read_i32(s, p) ==
  LET r == read_exact(s, p, 4)
  IN  [ok |-> r.ok,
       v |-> IF r.ok THEN LEValue(SubSeq(r.bytes, 1, 3))
                            + Signed(r.bytes[4], 8) * 16777216
                     ELSE 0,
       pos |-> r.pos]

\* byteorder: read_u16::<LE>
read_u16(s, p) ==
  LET r == read_exact(s, p, 2)
  IN  [ok |-> r.ok, v |-> LEValue(r.bytes), pos |-> r.pos]

\* byteorder: read_i16::<LE>
read_i16(s, p) ==
  LET r == read_exact(s, p, 2)
  IN  [ok |-> r.ok, v |-> Signed(LEValue(r.bytes), 16), pos |-> r.pos]

\* byteorder: read_u8
read_u8(s, p) ==
  LET r == read_exact(s, p, 1)
  IN  [ok |-> r.ok, v |-> LEValue(r.bytes), pos |-> r.pos]

\* byteorder: read_i8
read_i8(s, p) ==
  LET r == read_exact(s, p, 1)
  IN  [ok |-> r.ok, v |-> Signed(LEValue(r.bytes), 8), pos |-> r.pos]

\* byteorder: read_f32::<LE>, the float kept as its bit pattern
read_f32(s, p) == read_u32(s, p)

(***************************************************************************)
(* encoding_rs decoders.  Each returns [s, bad]: the decoded scalar values *)
(* with U+FFFD for every malformed sequence, and whether there was one.    *)
(***************************************************************************)

\* the number of bytes of the UTF-8 sequence a lead byte starts, 0 for a
\* byte that starts none
Utf8Need(lead) ==
  IF lead < 128 THEN 1
  ELSE IF lead \in 194..223 THEN 2
  ELSE IF lead \in 224..239 THEN 3
  ELSE IF lead \in 240..244 THEN 4
  ELSE 0

\* the range the k-th continuation byte after `lead` must lie in
Utf8Lo(lead, k) ==
  IF k = 1 /\ lead = 224 THEN 160 ELSE IF k = 1 /\ lead = 240 THEN 144 ELSE 128

Utf8Hi(lead, k) ==
  IF k = 1 /\ lead = 237 THEN 159 ELSE IF k = 1 /\ lead = 244 THEN 143 ELSE 191

\* how many of the continuation bytes wanted after position i are there
RECURSIVE Utf8Cont(_, _, _, _)
Utf8Cont(b, i, k, n) ==
  IF k >= n \/ i + k > Len(b) THEN k - 1
  ELSE IF b[i + k] \in Utf8Lo(b[i], k)..Utf8Hi(b[i], k)
    THEN Utf8Cont(b, i, k + 1, n)
    ELSE k - 1

Utf8Scalar(b, i, n) ==
  IF n = 1 THEN b[i]
  ELSE IF n = 2 THEN (b[i] - 192) * 64 + (b[i + 1] - 128)
  ELSE IF n = 3 THEN (b[i] - 224) * 4096 + (b[i + 1] - 128) * 64 + (b[i + 2] - 128)
  ELSE (b[i] - 240) * 262144 + (b[i + 1] - 128) * 4096
         + (b[i + 2] - 128) * 64 + (b[i + 3] - 128)

RECURSIVE Utf8From(_, _)
Utf8From(b, i) ==
  IF i > Len(b) THEN [s |-> <<>>, bad |-> FALSE]
  ELSE LET n == Utf8Need(b[i])
           m == IF n = 0 THEN 0 ELSE Utf8Cont(b, i, 1, n)
       IN  IF n # 0 /\ m = n - 1
             THEN LET rest == Utf8From(b, i + n)
                  IN  [s |-> <<Utf8Scalar(b, i, n)>> \o rest.s, bad |-> rest.bad]
             ELSE LET rest == Utf8From(b, i + 1 + m)
                  IN  [s |-> <<REPLACEMENT>> \o rest.s, bad |-> TRUE]

\* UTF_8.decode_without_bom_handling
Utf8Decode(b) == Utf8From(b, 1)

\* std::str::from_utf8: the string, when the bytes are valid UTF-8
from_utf8(b) == LET d == Utf8Decode(b) IN [ok |-> ~d.bad, s |-> d.s]

Utf16Unit(b, i) == b[i] + 256 * b[i + 1]

RECURSIVE Utf16From(_, _)
Utf16From(b, i) ==
  IF i > Len(b) THEN [s |-> <<>>, bad |-> FALSE]
  ELSE IF i = Len(b) THEN [s |-> <<REPLACEMENT>>, bad |-> TRUE]
  ELSE LET u == Utf16Unit(b, i)
       IN  IF u \in 55296..56319
             THEN IF i + 3 <= Len(b) /\ Utf16Unit(b, i + 2) \in 56320..57343
                    THEN LET rest == Utf16From(b, i + 4)
                             c == 65536 + (u - 55296) * 1024
                                          + (Utf16Unit(b, i + 2) - 56320)
                         IN  [s |-> <<c>> \o rest.s, bad |-> rest.bad]
                    ELSE IF i + 2 = Len(b)
                      THEN [s |-> <<REPLACEMENT>>, bad |-> TRUE]
                      ELSE LET rest == Utf16From(b, i + 2)
                           IN  [s |-> <<REPLACEMENT>> \o rest.s, bad |-> TRUE]
           ELSE IF u \in 56320..57343
             THEN LET rest == Utf16From(b, i + 2)
                  IN  [s |-> <<REPLACEMENT>> \o rest.s, bad |-> TRUE]
             ELSE LET rest == Utf16From(b, i + 2)
                  IN  [s |-> <<u>> \o rest.s, bad |-> rest.bad]

\* UTF_16LE.decode_without_bom_handling
Utf16leDecode(b) == Utf16From(b, 1)

\* UTF_16BE.decode_without_bom_handling: the same on byte-swapped units
RECURSIVE SwapPairs(_)
SwapPairs(b) ==
  IF Len(b) < 2 THEN b ELSE <<b[2], b[1]>> \o SwapPairs(SubSeq(b, 3, Len(b)))

Utf16beDecode(b) == Utf16From(SwapPairs(b), 1)

\* The part of the jis0208 index the byte alphabets of this model can
\* address (pointer -> scalar value, 0 for a pointer the index leaves
\* unassigned).  A pointer outside this part is not a value of the function.
Jis0208 ==
     (1 :> 12289) @@ (26 :> 12295) @@ (27 :> 12540) @@ (30 :> 65295)
  @@ (64 :> 65309) @@ (66 :> 65308) @@ (82 :> 65285) @@ (95 :> 9633)
  @@ (122 :> 8839) @@ (126 :> 8745) @@ (129 :> 0) @@ (174 :> 0)
  @@ (377 :> 12450) @@ (402 :> 12475) @@ (403 :> 12476) @@ (406 :> 12479)
  @@ (440 :> 12513) @@ (442 :> 12515) @@ (458 :> 12531) @@ (471 :> 914)
  @@ (498 :> 0) @@ (502 :> 945) @@ (505 :> 948) @@ (550 :> 0)
  @@ (390 :> 12463) @@ (438 :> 12511) @@ (1624 :> 38899) @@ (2373 :> 24038)
  @@ (2704 :> 21021) @@ (4101 :> 30446)
  @@ [p \in 8648..8835 |-> 0]

IsSjisLead(x) == x \in 129..159 \/ x \in 224..252

IsSjisTrail(t) == t \in 64..126 \/ t \in 128..252

SjisPointer(lead, t) ==
  (lead - (IF lead < 160 THEN 129 ELSE 193)) * 188 + t - (IF t < 127 THEN 64 ELSE 65)

\* the scalar value of a two-byte sequence, 0 when it has none
SjisPair(lead, t) ==
  IF ~IsSjisTrail(t) THEN 0
  ELSE LET p == SjisPointer(lead, t)
       IN  IF p \in 8836..10715 THEN 57344 - 8836 + p ELSE Jis0208[p]

RECURSIVE SjisFrom(_, _)
SjisFrom(b, i) ==
  IF i > Len(b) THEN [s |-> <<>>, bad |-> FALSE]
  ELSE LET x == b[i]
       IN  IF x <= 128
             THEN LET rest == SjisFrom(b, i + 1)
                  IN  [s |-> <<x>> \o rest.s, bad |-> rest.bad]
           ELSE IF x \in 161..223
             THEN LET rest == SjisFrom(b, i + 1)
                  IN  [s |-> <<65377 - 161 + x>> \o rest.s, bad |-> rest.bad]
           ELSE IF IsSjisLead(x)
             THEN IF i = Len(b) THEN [s |-> <<REPLACEMENT>>, bad |-> TRUE]
                  ELSE LET c == SjisPair(x, b[i + 1])
                       IN  IF c # 0
                             THEN LET rest == SjisFrom(b, i + 2)
                                  IN  [s |-> <<c>> \o rest.s, bad |-> rest.bad]
                             ELSE LET rest == SjisFrom(b, IF b[i + 1] < 128
                                                            THEN i + 1 ELSE i + 2)
                                  IN  [s |-> <<REPLACEMENT>> \o rest.s, bad |-> TRUE]
           ELSE LET rest == SjisFrom(b, i + 1)
                IN  [s |-> <<REPLACEMENT>> \o rest.s, bad |-> TRUE]

\* SHIFT_JIS.decode_without_bom_handling
SjisDecode(b) == SjisFrom(b, 1)

StartsWith(b, p) == Len(b) >= Len(p) /\ SubSeq(b, 1, Len(p)) = p

\* Encoding::for_bom: the encoding a byte order mark at the start names,
\* and the mark's length
for_bom(b) ==
  IF StartsWith(b, <<239, 187, 191>>) THEN [enc |-> "UTF8", len |-> 3]
  ELSE IF StartsWith(b, <<255, 254>>) THEN [enc |-> "UTF16LE", len |-> 2]
  ELSE IF StartsWith(b, <<254, 255>>) THEN [enc |-> "UTF16BE", len |-> 2]
  ELSE [enc |-> "none", len |-> 0]

decode_without_bom_handling(enc, b) ==
  IF enc = "UTF8" THEN Utf8Decode(b)
  ELSE IF enc = "UTF16LE" THEN Utf16leDecode(b)
  ELSE IF enc = "UTF16BE" THEN Utf16beDecode(b)
  ELSE SjisDecode(b)

\* Encoding::decode: a byte order mark at the start of the input decides
\* the encoding and is dropped; without one the encoding is `enc`
decode(enc, b) ==
  LET bom == for_bom(b)
  IN  decode_without_bom_handling(IF bom.enc = "none" THEN enc ELSE bom.enc,
                                  SubSeq(b, bom.len + 1, Len(b)))

(***************************************************************************)
(* The readers.  Each returns [kind, pos, value]: kind "ok" with the       *)
(* decoded value and the cursor after it, or the kind of the failure       *)
(* ("io", "InvalidHeader", "DecodeText", "IndexOverflow", "panic") with    *)
(* the cursor where the failing step left it and no value.                 *)
(***************************************************************************)
Ok(p, v) == [kind |-> "ok", pos |-> p, value |-> v]

Err(k, p) == [kind |-> k, pos |-> p, value |-> <<>>]

\* &buf[0..buf.iter().position(|&x| x == 0).unwrap_or(size)]
RECURSIVE TruncateNull(_)
TruncateNull(buf) ==
  IF buf = <<>> \/ Head(buf) = 0 THEN <<>>
  ELSE <<Head(buf)>> \o TruncateNull(Tail(buf))

\* .unwrap_or_else(|_| s.to_string()) on the result of from_utf8
unwrap_or_else(u, s) == IF u.ok THEN u.s ELSE s

\* let s = if is_malformed { from_utf8(buf) or else s } else { s }
StringOfDecoded(d, buf) == IF d.bad THEN unwrap_or_else(from_utf8(buf), d.s) ELSE d.s

\* the string of a field cut at its first null byte
StringOfField(buf) == StringOfDecoded(decode("SHIFT_JIS", buf), buf)

\* (mutant) a read_string that takes the field to end at its first null
\* byte and leaves the bytes after it in the source
StringOfReadToNull(r) ==
  IF ~r.ok THEN Err("io", r.pos)
  ELSE LET buf == TruncateNull(r.bytes)
       IN  Ok(r.pos - Len(r.bytes) + (IF Len(buf) < Len(r.bytes) THEN Len(buf) + 1
                                                              ELSE Len(buf)),
              StringOfField(buf))

\* read_string once read_exact has returned r
StringOfRead(r) ==
  IF ~r.ok THEN Err("io", r.pos) ELSE Ok(r.pos, StringOfField(TruncateNull(r.bytes)))

\* vmd: fn read_string(read, size)
read_string(s, p, size) == StringOfRead(read_exact(s, p, size))

\* vmd: fn read_vec::<_, N>: N floats one after the other
RECURSIVE read_vec(_, _, _)
read_vec(s, p, n) ==
  IF n = 0 THEN Ok(p, <<>>)
  ELSE LET f == read_f32(s, p)
       IN  IF ~f.ok THEN Err("io", f.pos)
           ELSE LET rest == read_vec(s, f.pos, n - 1)
                IN  IF rest.kind # "ok" THEN rest
                    ELSE Ok(rest.pos, <<f.v>> \o rest.value)

\* Ok(VmdHeader { model_name }) once read_string has returned n
HeaderOfName(n) == IF n.kind # "ok" THEN n ELSE Ok(n.pos, [model_name |-> n.value])

\* (mutant) a VmdHeader::read that compares all 30 bytes with the magic
\* padded with zeros
HeaderOfReadWholeBuffer(s, r) ==
  IF ~r.ok THEN Err("io", r.pos)
  ELSE IF r.bytes # VMD_HEADER \o Repeat(0, HeaderBufSize - Len(VMD_HEADER))
    THEN Err("InvalidHeader", r.pos)
    ELSE HeaderOfName(read_string(s, r.pos, VMD_MODEL_NAME_SIZE))

\* VmdHeader::read once read_exact has returned r
HeaderOfRead(s, r) ==
  IF ~r.ok THEN Err("io", r.pos)
  ELSE IF SubSeq(r.bytes, 1, Len(VMD_HEADER)) # VMD_HEADER
    THEN Err("InvalidHeader", r.pos)
    ELSE HeaderOfName(read_string(s, r.pos, VMD_MODEL_NAME_SIZE))

\* VmdHeader::read
VmdHeader_read(s, p) == HeaderOfRead(s, read_exact(s, p, HeaderBufSize))

\* the result of read_u32 and of read_exact as the result of a reader
OfU32(r) == IF ~r.ok THEN Err("io", r.pos) ELSE Ok(r.pos, r.v)

OfBytes(r) == IF ~r.ok THEN Err("io", r.pos) ELSE Ok(r.pos, r.bytes)

\* The fields of a record of each frame kind, in the order its read reads
\* them: the field's name, how it is read and with what size.
MotionFields ==
  << [name |-> "name", read |-> "read_string", n |-> MotionNameSize],
     [name |-> "frame_no", read |-> "read_u32", n |-> 4],
     [name |-> "position", read |-> "read_vec", n |-> 3],
     [name |-> "rotation", read |-> "read_vec", n |-> 4],
     [name |-> "interpolation", read |-> "read_exact", n |-> InterpolationSize] >>

SkinFields == << [name |-> "unknown", read |-> "read_exact", n |-> SkinFrameSize] >>

CameraFields == << [name |-> "unknown", read |-> "read_exact", n |-> CameraFrameSize] >>

LightFields == << [name |-> "unknown", read |-> "read_exact", n |-> LightFrameSize] >>

ShadowFields == << [name |-> "unknown", read |-> "read_exact", n |-> ShadowFrameSize] >>

\* one read of a record's read
ReadField(s, p, f) ==
  CASE f.read = "read_string" -> read_string(s, p, f.n)
    [] f.read = "read_u32" -> OfU32(read_u32(s, p))
    [] f.read = "read_vec" -> read_vec(s, p, f.n)
    [] f.read = "read_exact" -> OfBytes(read_exact(s, p, f.n))

\* the reads of a record one after the other, each ending the read with its
\* error (`?`) or giving the record its field; Ok(Self { .. }) at the end
RECURSIVE ReadFields(_, _, _, _)
RECURSIVE FieldRead(_, _, _, _)
ReadFields(s, p, fields, rec) ==
  IF fields = <<>> THEN Ok(p, rec)
  ELSE FieldRead(s, fields, rec, ReadField(s, p, Head(fields)))

FieldRead(s, fields, rec, r) ==
  IF r.kind # "ok" THEN r
  ELSE ReadFields(s, r.pos, Tail(fields), rec @@ (Head(fields).name :> r.value))

\* MotionFrame::read
MotionFrame_read(s, p) == ReadFields(s, p, MotionFields, <<>>)

\* SkinFrame::read
SkinFrame_read(s, p) == ReadFields(s, p, SkinFields, <<>>)

\* CameraFrame::read
CameraFrame_read(s, p) == ReadFields(s, p, CameraFields, <<>>)

\* LightFrame::read
LightFrame_read(s, p) == ReadFields(s, p, LightFields, <<>>)

\* ShadowFrame::read
ShadowFrame_read(s, p) == ReadFields(s, p, ShadowFields, <<>>)

FrameKinds == {"motion", "skin", "camera", "light", "shadow"}

\* Self::read of the frame kind
FrameRead(kind, s, p) ==
  CASE kind = "motion" -> MotionFrame_read(s, p)
    [] kind = "skin" -> SkinFrame_read(s, p)
    [] kind = "camera" -> CameraFrame_read(s, p)
    [] kind = "light" -> LightFrame_read(s, p)
    [] kind = "shadow" -> ShadowFrame_read(s, p)

\* for _ in 0..total_frames { frames.push(Self::read(read)?); } Ok(frames)
RECURSIVE ReadFrames(_, _, _, _, _)
RECURSIVE PushFrame(_, _, _, _, _)
\* (mutant) a loop that stops at the first record it cannot read and
\* returns the records read so far
PushFrameKeepsPartial(kind, s, n, frames, f) ==
  IF f.kind # "ok" THEN Ok(f.pos, frames)
  ELSE ReadFrames(kind, s, f.pos, U32Dec(n), Append(frames, f.value))

\* (mutant) a loop that puts each record in front of the ones before it
PushFramePrepends(kind, s, n, frames, f) ==
  IF f.kind # "ok" THEN f
  ELSE ReadFrames(kind, s, f.pos, U32Dec(n), <<f.value>> \o frames)

ReadFrames(kind, s, p, n, frames) ==
  IF n = U32Of(0) THEN Ok(p, frames)
  ELSE PushFrame(kind, s, n, frames, FrameRead(kind, s, p))

\* frames.push(f?) and the rest of the loop
PushFrame(kind, s, n, frames, f) ==
  IF f.kind # "ok" THEN f
  ELSE ReadFrames(kind, s, f.pos, U32Dec(n), Append(frames, f.value))

\* read_all once read_u32 has returned total_frames.  (The vector's
\* capacity, the count times the record's size in memory, stays below
\* isize::MAX on a 64-bit target: Vec::with_capacity does not refuse it.
\* Whether the allocator grants that much memory is outside the model.)
FramesOfCount(kind, s, total_frames) ==
  IF ~total_frames.ok THEN Err("io", total_frames.pos)
  ELSE ReadFrames(kind, s, total_frames.pos, total_frames.v, <<>>)

\* read_all of a frame kind: the count, then that many records
read_all(kind, s, p) == FramesOfCount(kind, s, read_u32(s, p))

\* MotionFrame::read_all
MotionFrame_read_all(s, p) == read_all("motion", s, p)

\* SkinFrame::read_all
SkinFrame_read_all(s, p) == read_all("skin", s, p)

\* CameraFrame::read_all
CameraFrame_read_all(s, p) == read_all("camera", s, p)

\* LightFrame::read_all
LightFrame_read_all(s, p) == read_all("light", s, p)

\* ShadowFrame::read_all
ShadowFrame_read_all(s, p) == read_all("shadow", s, p)

(***************************************************************************)
(* pmx: the ReadHelpers trait.                                             *)
(***************************************************************************)
TextEncodings == {"UTF8", "UTF16LE"}

\* Vec::with_capacity(size as usize) panics ("capacity overflow") when the
\* capacity is above isize::MAX bytes.  The cast of a negative i32 sign
\* extends, to at least 2^w - 2^31 for a usize of w bits, which is above
\* isize::MAX = 2^(w-1) - 1; a size that is not negative stays below it.
CapacityOverflow(size) == size < 0

\* the result of read_text once the payload is decoded
TextOfDecoded(p, d) == IF d.bad THEN Err("DecodeText", p) ELSE Ok(p, d.s)

\* read_text once read_exact has returned r
TextOfRead(r, encoding) ==
  IF ~r.ok THEN Err("io", r.pos) ELSE TextOfDecoded(r.pos, decode(encoding, r.bytes))

\* read_text once read_i32 has returned size
TextOfSize(s, size, encoding) ==
  IF ~size.ok THEN Err("io", size.pos)
  ELSE IF CapacityOverflow(size.v) THEN Err("panic", size.pos)
  ELSE TextOfRead(read_exact(s, size.pos, size.v), encoding)

\* ReadHelpers::read_text
read_text(s, p, encoding) == TextOfSize(s, read_i32(s, p), encoding)

IndexSizes == {"I8", "I16", "I32"}

\* The integer types an index may be converted into.
IndexTypes == {"i8", "i16", "i32", "i64", "u8", "u16", "u32", "u64"}

\* whether the type can represent v, a value within 32 signed bits (every
\* such value is below the upper end of u32, i64 and u64 and above the
\* lower end of i64)
Representable(I, v) ==
  CASE I = "i8" -> v \in -128..127
    [] I = "i16" -> v \in -32768..32767
    [] I = "i32" -> TRUE
    [] I = "i64" -> TRUE
    [] I = "u8" -> v \in 0..255
    [] I = "u16" -> v \in 0..65535
    [] I = "u32" -> v >= 0
    [] I = "u64" -> v >= 0

\* the value of the type with the same low bits as v (`v as I`)
Wrap(I, v) ==
  CASE I = "i8" -> Signed(v % 256, 8)
    [] I = "i16" -> Signed(v % 65536, 16)
    [] I = "u8" -> v % 256
    [] I = "u16" -> v % 65536
    [] OTHER -> v

\* (mutant) a conversion that casts instead of checking
try_from_as_cast(I, raw) ==
  IF ~raw.ok THEN Err("io", raw.pos) ELSE Ok(raw.pos, Wrap(I, raw.v))

\* I::try_from(v).map_err(|_| Error::IndexOverflow(v.into()))
try_from(I, raw) ==
  IF ~raw.ok THEN Err("io", raw.pos)
  ELSE IF Representable(I, raw.v) THEN Ok(raw.pos, raw.v)
  ELSE [kind |-> "IndexOverflow", pos |-> raw.pos, value |-> raw.v]

\* ReadHelpers::read_index
read_index(s, p, size, I) ==
  CASE size = "I8" -> try_from(I, read_i8(s, p))
    [] size = "I16" -> try_from(I, read_i16(s, p))
    [] size = "I32" -> try_from(I, read_i32(s, p))

\* (mutant) a read_vertex_index that reads the narrow widths as signed
read_vertex_index_signed(s, p, size, I) ==
  CASE size = "I8" -> try_from(I, read_i8(s, p))
    [] size = "I16" -> try_from(I, read_i16(s, p))
    [] size = "I32" -> try_from(I, read_i32(s, p))

\* ReadHelpers::read_vertex_index
read_vertex_index(s, p, size, I) ==
  CASE size = "I8" -> try_from(I, read_u8(s, p))
    [] size = "I16" -> try_from(I, read_u16(s, p))
    [] size = "I32" -> try_from(I, read_i32(s, p))

(***************************************************************************)
(* The sources the model reads.                                            *)
(***************************************************************************)
Zeros(n) == Repeat(0, n)

PadTo(bs, n) == bs \o Zeros(n - Len(bs))

\* the 30 bytes a file starts with: the magic and four more bytes
HeaderBytes(h) ==
  CASE h = "good" -> VMD_HEADER \o Zeros(4)
    [] h = "padding" -> VMD_HEADER \o <<1, 2, 3, 4>>
    [] h = "first" -> [VMD_HEADER EXCEPT ![1] = 118] \o Zeros(4)
    [] h = "middle" -> [VMD_HEADER EXCEPT ![13] = 88] \o Zeros(4)
    [] h = "last" -> [VMD_HEADER EXCEPT ![26] = 32] \o Zeros(4)

HeaderKinds == {"good", "padding", "first", "middle", "last"}

\* the Shift-JIS bytes of the model name of the fixtures
HatsuneMiku == <<143, 137, 137, 185, 131, 126, 131, 78>>

\* a 20-byte model name field
NameBytes(n) ==
  CASE n = "empty" -> Zeros(VMD_MODEL_NAME_SIZE)
    [] n = "miku" -> PadTo(HatsuneMiku, VMD_MODEL_NAME_SIZE)
    [] n = "issue1" -> HatsuneMiku \o <<0>> \o Repeat(253, VMD_MODEL_NAME_SIZE - 9)

NameKinds == {"empty", "miku", "issue1"}

\* the Shift-JIS bytes of the bone name of the i-th motion record
BoneName(i) ==
  IF i = 1 THEN <<131, 90, 131, 147, 131, 94, 129, 91>>
  ELSE IF i = 2 THEN <<141, 182, 150, 218>>
  ELSE <<66, 48 + i>>

\* the bytes of the i-th record of a section of a frame kind (the opaque
\* records hold bytes 1..127 only: read as a name they are plain ASCII)
RecordBytes(kind, i) ==
  CASE kind = "motion" ->
         PadTo(BoneName(i), MotionNameSize) \o U32Bytes(U32Of(i - 1))
           \o Zeros(12) \o Zeros(12) \o <<0, 0, 128, 63>>
           \o [j \in 1..InterpolationSize |-> (16 * i + j) % 128]
    [] kind = "skin" -> [j \in 1..SkinFrameSize |-> 1 + ((40 + 7 * i + j) % 127)]
    [] kind = "camera" -> [j \in 1..CameraFrameSize |-> 1 + ((80 + 7 * i + j) % 127)]
    [] kind = "light" -> [j \in 1..LightFrameSize |-> 1 + ((120 + 7 * i + j) % 127)]
    [] kind = "shadow" -> [j \in 1..ShadowFrameSize |-> 1 + ((160 + 7 * i + j) % 127)]

RECURSIVE Records(_, _, _)
Records(kind, i, n) ==
  IF i > n THEN <<>> ELSE RecordBytes(kind, i) \o Records(kind, i + 1, n)

\* a section: the count and that many records
Section(kind, n) == U32Bytes(U32Of(n)) \o Records(kind, 1, n)

\* a whole file with counts[k] records in its k-th section
FileBytes(h, n, counts) ==
  HeaderBytes(h) \o NameBytes(n)
    \o Section("motion", counts[1]) \o Section("skin", counts[2])
    \o Section("camera", counts[3]) \o Section("light", counts[4])
    \o Section("shadow", counts[5])

NoFrames == [k \in 1..5 |-> 0]

\* the record counts of the generated files
Counts ==
  {c \in [1..5 -> 0..MaxFrames] : c[1] + c[2] + c[3] + c[4] + c[5] <= MaxFrames}

\* a source and the same source cut short, to every length from `from` on
Cuts(bs, from) == {SubSeq(bs, 1, c) : c \in from..Len(bs)}

\* a file whose first count is far above what follows it
HugeCountFiles ==
  {HeaderBytes("good") \o NameBytes("empty") \o <<255, 255, 255, 255>> \o Repeat(7, k)
     : k \in {0, 30, 120}}

VmdInputs ==
  UNION {Cuts(FileBytes(h, "empty", NoFrames), 0) : h \in HeaderKinds}
    \cup {FileBytes("good", n, NoFrames) : n \in NameKinds}
    \cup UNION {Cuts(FileBytes("good", "miku", c), HeaderBufSize + VMD_MODEL_NAME_SIZE)
                  : c \in Counts}
    \cup HugeCountFiles

\* records of one kind with no header and no count before them
RecordInputs ==
  UNION {Cuts(Records(kind, 1, MaxFrames), 0) : kind \in FrameKinds}

(***************************************************************************)
(* The calls.  A call appends its outcome to the log and moves the cursor. *)
(* After a failed read_exact the cursor is where the failing read began or *)
(* at the end of the source: Read::read_exact leaves open how much of a    *)
(* short source it consumes.  A failure ends the reading of the source:    *)
(* every reader hands the error to its caller with `?`.                    *)
(***************************************************************************)
Call(op, arg, r) ==
  \E q \in (IF r.kind = "io" THEN {r.pos, Len(src)} ELSE {r.pos}) :
    /\ pos' = q
    /\ log' = Append(log, [op |-> op, arg |-> arg, from |-> pos, to |-> q,
                           kind |-> r.kind, value |-> r.value])
    /\ UNCHANGED <<src, caller>>

Last == log[Len(log)]

\* no call has failed so far
Reading == IF log = <<>> THEN TRUE ELSE Last.kind = "ok"

\* reading a source as a VMD file: the header, then the five sections
FileStep(k) == caller = "file" /\ Reading /\ Len(log) = k

ReadHeader == FileStep(0) /\ Call("VmdHeader::read", "", VmdHeader_read(src, pos))

MotionReadAll ==
  FileStep(1) /\ Call("read_all", "motion", MotionFrame_read_all(src, pos))

SkinReadAll ==
  FileStep(2) /\ Call("read_all", "skin", SkinFrame_read_all(src, pos))

CameraReadAll ==
  FileStep(3) /\ Call("read_all", "camera", CameraFrame_read_all(src, pos))

LightReadAll ==
  FileStep(4) /\ Call("read_all", "light", LightFrame_read_all(src, pos))

ShadowReadAll ==
  FileStep(5) /\ Call("read_all", "shadow", ShadowFrame_read_all(src, pos))

\* reading a source record by record
RecordStep == caller = "records" /\ Reading /\ Len(log) < MaxFrames

MotionRead == RecordStep /\ Call("read", "motion", MotionFrame_read(src, pos))

SkinRead == RecordStep /\ Call("read", "skin", SkinFrame_read(src, pos))

CameraRead == RecordStep /\ Call("read", "camera", CameraFrame_read(src, pos))

LightRead == RecordStep /\ Call("read", "light", LightFrame_read(src, pos))

ShadowRead == RecordStep /\ Call("read", "shadow", ShadowFrame_read(src, pos))

Init ==
  /\ \/ caller = "file" /\ src \in VmdInputs
     \/ caller = "records" /\ src \in RecordInputs
  /\ pos = 0
  /\ log = <<>>

Next ==
  \/ ReadHeader
  \/ MotionReadAll
  \/ SkinReadAll
  \/ CameraReadAll
  \/ LightReadAll
  \/ ShadowReadAll
  \/ MotionRead
  \/ SkinRead
  \/ CameraRead
  \/ LightRead
  \/ ShadowRead

Spec == Init /\ [][Next]_vars

(***************************************************************************)
(* Properties of the VMD readers (checked under Spec).                     *)
(***************************************************************************)
\* the calls of the log made with the given reader
CallsOf(op) == {i \in 1..Len(log) : log[i].op = op}

\* how many bytes the source had left when the i-th call began
Available(i) == Len(src) - log[i].from

\* the record size the format gives each frame kind
RecordSize(kind) ==
  CASE kind = "motion" -> 111
    [] kind = "skin" -> 23
    [] kind = "camera" -> 61
    [] kind = "light" -> 28
    [] kind = "shadow" -> 9

\* C2: VmdHeader::read returns InvalidHeader exactly when the source has at
\* least 30 bytes left and the first 26 of them are not the magic; with
\* fewer than 30 bytes it fails with an I/O failure whatever they are; with
\* the magic and at least 50 bytes it succeeds whatever bytes 26..29 are;
\* and an InvalidHeader has consumed exactly 30 bytes and carries no header.
C2_InvalidHeaderIff ==
  \A i \in CallsOf("VmdHeader::read") :
    LET e == log[i]
        magic == Available(i) >= 26
                   /\ SubSeq(src, e.from + 1, e.from + 26) = VMD_HEADER
    IN  /\ (e.kind = "InvalidHeader") <=> (Available(i) >= 30 /\ ~magic)
        /\ Available(i) < 30 => e.kind = "io"
        /\ (magic /\ Available(i) >= 50) => (e.kind = "ok" /\ e.to = e.from + 50)
        /\ e.kind = "InvalidHeader" => (e.to = e.from + 30 /\ e.value = <<>>)

\* C2 witness: a header whose magic differs only in its last byte, with all
\* 30 bytes there, has been refused
C2_Witness ==
  /\ Len(log) = 1
  /\ log[1].kind = "InvalidHeader"
  /\ pos = 30
  /\ SubSeq(src, 1, 25) = SubSeq(VMD_HEADER, 1, 25)

\* whether the source ends before the end of the n records of the given
\* size that a section starting at `from` declares
EndsInside(from, n, size) ==
  /\ from + 4 <= Len(src)
  /\ n.hi > 0 \/ from + 4 + n.lo * size > Len(src)

\* C3: a read_all on a source that ends inside the records its count
\* declares fails with an I/O failure and returns no frames; a successful
\* read_all or read never returns a record that the source does not hold
\* whole; and a read on a source with fewer bytes left than the record's
\* size fails with an I/O failure.
C3_TruncatedIsIoFailure ==
  /\ \A i \in CallsOf("read_all") :
       LET e == log[i]
           size == RecordSize(e.arg)
       IN  /\ EndsInside(e.from, read_u32(src, e.from).v, size)
                => (e.kind = "io" /\ e.value = <<>>)
           /\ e.kind = "ok" => e.from + 4 + Len(e.value) * size <= Len(src)
           /\ e.kind # "ok" => e.value = <<>>
  /\ \A i \in CallsOf("read") :
       LET e == log[i]
       IN  /\ Available(i) < RecordSize(e.arg) => (e.kind = "io" /\ e.value = <<>>)
           /\ e.kind = "ok" => e.from + RecordSize(e.arg) <= Len(src)

\* C3 witness: a section declaring two records, cut one byte before the end
\* of the second, has been read and has failed
C3_Witness ==
  /\ Len(log) >= 2
  /\ Last.op = "read_all"
  /\ Last.kind = "io"
  /\ read_u32(src, Last.from).v = U32Of(2)
  /\ Len(src) = Last.from + 4 + 2 * RecordSize(Last.arg) - 1

\* C4: every call starts where the call before it ended and never moves the
\* cursor back; a successful VmdHeader::read advances it by 50, a successful
\* read by the record size of its kind, a successful read_all by 4 plus the
\* count times the record size.
C4_ExactForwardConsumption ==
  /\ pos = IF log = <<>> THEN 0 ELSE Last.to
  /\ \A i \in 1..Len(log) :
       LET e == log[i]
       IN  /\ e.from = IF i = 1 THEN 0 ELSE log[i - 1].to
           /\ e.from <= e.to
           /\ e.to <= Len(src)
           /\ (e.kind = "ok" /\ e.op = "VmdHeader::read") => e.to = e.from + 50
           /\ (e.kind = "ok" /\ e.op = "read") => e.to = e.from + RecordSize(e.arg)
           /\ (e.kind = "ok" /\ e.op = "read_all") =>
                /\ U32Of(Len(e.value)) = read_u32(src, e.from).v
                /\ e.to = e.from + 4 + Len(e.value) * RecordSize(e.arg)

\* C4 witness: a whole file with a name that ends before its field does and
\* two records in one section has been read to its end
C4_Witness ==
  /\ caller = "file"
  /\ Len(log) = 6
  /\ Last.kind = "ok"
  /\ pos = Len(src)
  /\ Len(log[1].value.model_name) = 4
  /\ \E k \in 2..6 : Len(log[k].value) = 2

\* the name of the first bone of the fixture, "センター"
Center == <<12475, 12531, 12479, 12540>>

\* C10: a successful read_all returns as many records as the count it read
\* first, the i-th of them decoded from the i-th record slot after the
\* count: an opaque record holds the bytes of its slot, the i-th motion
\* record of a generated file has frame number i - 1 and the first one the
\* name "センター".  A header followed by a zero-filled name and five zero
\* counts decodes to an empty model name and five empty sequences.
C10_FramesInDiskOrder ==
  /\ \A k \in CallsOf("read_all") :
       LET e == log[k]
           size == RecordSize(e.arg)
           slot(i) == e.from + 4 + (i - 1) * size
       IN  e.kind = "ok" =>
             /\ U32Of(Len(e.value)) = read_u32(src, e.from).v
             /\ \A i \in 1..Len(e.value) :
                  /\ e.value[i] = FrameRead(e.arg, src, slot(i)).value
                  /\ e.arg # "motion" =>
                       e.value[i].unknown = SubSeq(src, slot(i) + 1, slot(i) + size)
                  /\ (e.arg = "motion" /\ k = 2) =>
                       /\ e.value[i].frame_no = U32Of(i - 1)
                       /\ e.value[i].interpolation
                            = SubSeq(src, slot(i) + 48, slot(i) + 111)
                       /\ i = 1 => e.value[i].name = Center
  /\ (caller = "file" /\ src = FileBytes("good", "empty", NoFrames)) =>
       /\ \A k \in 1..Len(log) : log[k].kind = "ok"
       /\ Len(log) >= 1 => log[1].value.model_name = <<>>
       /\ \A k \in 2..Len(log) : log[k].value = <<>>

\* C10 witness: a motion section of two records has been read after the
\* header, and the records came back in the order of the file
C10_Witness ==
  /\ Len(log) >= 2
  /\ log[2].op = "read_all"
  /\ log[2].arg = "motion"
  /\ log[2].kind = "ok"
  /\ Len(log[2].value) = 2
  /\ log[2].value[1].frame_no = U32Of(0)
  /\ log[2].value[2].frame_no = U32Of(1)

(***************************************************************************)
(* The index readers on short sources (SpecIndex).                         *)
(***************************************************************************)
\* longest source of the index readers, in bytes
MaxIndexBytes == 4

IndexByteValues == {0, 127, 128, 200, 255}

RECURSIVE SeqsUpTo(_, _)
SeqsUpTo(S, n) ==
  IF n = 0 THEN {<<>>}
  ELSE LET shorter == SeqsUpTo(S, n - 1)
       IN  shorter \cup {Append(q, x) : q \in {r \in shorter : Len(r) = n - 1}, x \in S}

IndexInputs == SeqsUpTo(IndexByteValues, MaxIndexBytes)

\* one call of read_index on a fresh source
ReadIndex ==
  /\ caller = "index"
  /\ log = <<>>
  /\ \E size \in IndexSizes, I \in IndexTypes :
       Call("read_index", [size |-> size, I |-> I], read_index(src, pos, size, I))

\* one call of read_vertex_index on a fresh source
ReadVertexIndex ==
  /\ caller = "index"
  /\ log = <<>>
  /\ \E size \in IndexSizes, I \in IndexTypes :
       Call("read_vertex_index", [size |-> size, I |-> I],
            read_vertex_index(src, pos, size, I))

InitIndex == caller = "index" /\ src \in IndexInputs /\ pos = 0 /\ log = <<>>

NextIndex == ReadIndex \/ ReadVertexIndex

SpecIndex == InitIndex /\ [][NextIndex]_vars

\* the number of bytes of an index width
WidthBytes(size) == CASE size = "I8" -> 1 [] size = "I16" -> 2 [] size = "I32" -> 4

\* the bytes of the source as an unsigned little-endian number of w bytes,
\* and as a two's complement one
WireUnsigned(w) == IF w = 1 THEN src[1] ELSE src[1] + 256 * src[2]

WireSigned(w) ==
  IF w = 1 THEN (IF src[1] >= 128 THEN src[1] - 256 ELSE src[1])
  ELSE IF w = 2 THEN (IF src[2] >= 128 THEN src[1] + 256 * src[2] - 65536
                                        ELSE src[1] + 256 * src[2])
  ELSE src[1] + 256 * src[2] + 65536 * src[3]
         + 16777216 * (IF src[4] >= 128 THEN src[4] - 256 ELSE src[4])

\* the raw value a call reads: unsigned for a vertex index of 8 or 16 bits,
\* signed otherwise
WireValue(e) ==
  IF e.op = "read_vertex_index" /\ e.arg.size # "I32"
    THEN WireUnsigned(WidthBytes(e.arg.size))
    ELSE WireSigned(WidthBytes(e.arg.size))

\* whether an integer type of the given signedness and bits holds v, a
\* value within 32 signed bits
Holds(signed, bits, v) ==
  IF signed THEN bits >= 32 \/ (v >= -(2 ^ (bits - 1)) /\ v < 2 ^ (bits - 1))
            ELSE v >= 0 /\ (bits >= 32 \/ v < 2 ^ bits)

TypeHolds(I, v) ==
  CASE I = "i8" -> Holds(TRUE, 8, v) [] I = "i16" -> Holds(TRUE, 16, v)
    [] I = "i32" -> Holds(TRUE, 32, v) [] I = "i64" -> Holds(TRUE, 64, v)
    [] I = "u8" -> Holds(FALSE, 8, v) [] I = "u16" -> Holds(FALSE, 16, v)
    [] I = "u32" -> Holds(FALSE, 32, v) [] I = "u64" -> Holds(FALSE, 64, v)

IndexCalls == CallsOf("read_index") \cup CallsOf("read_vertex_index")

\* C8: at every width, for both readers and every target type, a raw value
\* the target type holds comes back as that value, and one it does not hold
\* comes back as IndexOverflow carrying that raw value unchanged.
C8_ConvertsOrOverflows ==
  \A i \in IndexCalls :
    LET e == log[i]
    IN  Available(i) >= WidthBytes(e.arg.size) =>
          /\ TypeHolds(e.arg.I, WireValue(e)) => (e.kind = "ok" /\ e.value = WireValue(e))
          /\ ~TypeHolds(e.arg.I, WireValue(e))
               => (e.kind = "IndexOverflow" /\ e.value = WireValue(e))

\* C8 witness: the 16-bit vertex index FF FF read into an i16 has overflowed
C8_Witness ==
  /\ Len(log) = 1
  /\ Last.op = "read_vertex_index"
  /\ Last.arg = [size |-> "I16", I |-> "i16"]
  /\ Last.kind = "IndexOverflow"
  /\ Last.value = 65535

\* the raw value a call has read, whichever way it ended
RawOf(e) == e.value

\* C9: read_vertex_index reads 8 and 16 bits as unsigned and 32 bits as
\* signed, read_index reads all three widths as signed; each consumes
\* exactly 1, 2 or 4 bytes, little-endian, and fails with an I/O failure
\* when the source has fewer.
C9_WidthDependentSignedness ==
  \A i \in IndexCalls :
    LET e == log[i]
        w == WidthBytes(e.arg.size)
    IN  /\ Available(i) < w <=> e.kind = "io"
        /\ e.kind # "io" =>
             /\ e.to = e.from + w
             /\ RawOf(e) = WireValue(e)
             /\ (e.op = "read_vertex_index" /\ w = 1 /\ src[1] = 200) => RawOf(e) = 200
             /\ (e.op = "read_vertex_index" /\ w = 2 /\ SubSeq(src, 1, 2) = <<255, 255>>)
                  => RawOf(e) = 65535
             /\ (w = 4 /\ SubSeq(src, 1, 4) = <<255, 255, 255, 255>>) => RawOf(e) = -1
             /\ (e.op = "read_index" /\ w = 1 /\ src[1] = 200) => RawOf(e) = -56
             /\ (e.op = "read_index" /\ w = 2 /\ SubSeq(src, 1, 2) = <<255, 255>>)
                  => RawOf(e) = -1

\* C9 witness: the byte 200 has been read as the 8-bit vertex index 200
C9_Witness ==
  /\ Len(log) = 1
  /\ Last.op = "read_vertex_index"
  /\ Last.arg.size = "I8"
  /\ Last.kind = "ok"
  /\ src[1] = 200
  /\ Last.value = 200
  /\ pos = 1

(***************************************************************************)
(* The fixed-width text reader on single fields (SpecString).              *)
(***************************************************************************)
\* the byte values the text of a field is made of: ASCII, a Shift-JIS lead
\* byte and trail bytes, UTF-8 lead and continuation bytes, the bytes of
\* the byte order marks
FieldByteValues == {65, 90, 131, 194, 160, 239, 187, 191, 255, 254}

\* a field of the given size: the text, then zeros, or a null and the
\* filler 0xFD, or the letter A up to the end of the field (no null at all)
FieldBytes(text, padding, size) ==
  CASE padding = "zeros" -> PadTo(text, size)
    [] padding = "filler" -> text \o <<0>> \o Repeat(253, size - Len(text) - 1)
    [] padding = "none" -> text \o Repeat(65, size - Len(text))

Paddings == {"zeros", "filler", "none"}

\* the field sizes read_string is called with
FieldSizes == {MotionNameSize, VMD_MODEL_NAME_SIZE}

StringInputs ==
  {FieldBytes(text, padding, size) :
     text \in SeqsUpTo(FieldByteValues, MaxLen), padding \in Paddings, size \in FieldSizes}

\* one call of read_string on a fresh source, with the size of a bone name
ReadBoneName ==
  /\ caller = "string"
  /\ log = <<>>
  /\ Call("read_string", MotionNameSize, read_string(src, pos, MotionNameSize))

\* one call of read_string on a fresh source, with the size of a model name
ReadModelName ==
  /\ caller = "string"
  /\ log = <<>>
  /\ Call("read_string", VMD_MODEL_NAME_SIZE, read_string(src, pos, VMD_MODEL_NAME_SIZE))

InitString == caller = "string" /\ src \in StringInputs /\ pos = 0 /\ log = <<>>

NextString == ReadBoneName \/ ReadModelName

SpecString == InitString /\ [][NextString]_vars

\* the bytes of the field of the i-th call up to its first null byte
TextOfField(i) == TruncateNull(SubSeq(src, log[i].from + 1, log[i].from + log[i].arg))

\* what the three attempts give in their order: the Shift-JIS decoding of
\* valid Shift-JIS, else the UTF-8 decoding of valid UTF-8, else the lossy
\* Shift-JIS decoding
ThreeTier(text) ==
  IF ~SjisDecode(text).bad THEN SjisDecode(text).s
  ELSE IF ~Utf8Decode(text).bad THEN Utf8Decode(text).s
  ELSE SjisDecode(text).s

\* the string with the U+FEFF it starts with, if any, left out
WithoutMark(str) == IF str # <<>> /\ Head(str) = 65279 THEN Tail(str) ELSE str

\* C5: read_string succeeds whenever the source holds the field, and its
\* result is what the three attempts give on the bytes before the first
\* null byte of the field (with or without the U+FEFF it starts with).
C5_ThreeTierFallback ==
  \A i \in CallsOf("read_string") :
    Available(i) >= log[i].arg =>
      /\ log[i].kind = "ok"
      /\ log[i].value \in {ThreeTier(TextOfField(i)), WithoutMark(ThreeTier(TextOfField(i)))}

\* read_string on a field that starts with no byte order mark: the result
\* is what the three attempts give
ThreeTierWithoutMark ==
  \A i \in CallsOf("read_string") :
    (Available(i) >= log[i].arg /\ for_bom(TextOfField(i)).enc = "none") =>
      (log[i].kind = "ok" /\ log[i].value = ThreeTier(TextOfField(i)))

\* read_string never fails on a source that holds the field, and the bytes
\* after the first null byte do not change its result
StringOfTextOnly ==
  \A i \in CallsOf("read_string") :
    Available(i) >= log[i].arg =>
      (log[i].kind = "ok" /\ log[i].value = StringOfField(TextOfField(i)))

(***************************************************************************)
(* The length-prefixed text reader (SpecText).                             *)
(***************************************************************************)
\* str::as_bytes: the UTF-8 bytes of a scalar value
Utf8Bytes(c) ==
  IF c < 128 THEN <<c>>
  ELSE IF c < 2048 THEN <<192 + (c \div 64), 128 + (c % 64)>>
  ELSE IF c < 65536
    THEN <<224 + (c \div 4096), 128 + ((c \div 64) % 64), 128 + (c % 64)>>
    ELSE <<240 + (c \div 262144), 128 + ((c \div 4096) % 64),
           128 + ((c \div 64) % 64), 128 + (c % 64)>>

\* str::encode_utf16, each unit little-endian
Utf16leBytes(c) ==
  IF c < 65536 THEN <<c % 256, c \div 256>>
  ELSE LET hi == 55296 + ((c - 65536) \div 1024)
           lo == 56320 + ((c - 65536) % 1024)
       IN  <<hi % 256, hi \div 256, lo % 256, lo \div 256>>

RECURSIVE Encode(_, _)
Encode(encoding, str) ==
  IF str = <<>> THEN <<>>
  ELSE (IF encoding = "UTF8" THEN Utf8Bytes(Head(str)) ELSE Utf16leBytes(Head(str)))
         \o Encode(encoding, Tail(str))

\* the four little-endian bytes of a length that is not negative
LengthPrefix(n) == U32Bytes(U32Of(n))

\* a text field: the length of the payload, then the payload
TextField(payload) == LengthPrefix(Len(payload)) \o payload

\* the characters of the strings that are encoded and read back: A, e with
\* acute, U+FEFF, U+BBEF, the inverted question mark, U+FFFE, an emoji
Characters == {65, 233, 65279, 48111, 191, 65534, 128512}

Strings == SeqsUpTo(Characters, MaxStr)

\* the byte values of the payloads that are not encoded from a string
PayloadByteValues == {65, 0, 195, 169, 255, 254, 239, 187, 191, 216}

Payloads == SeqsUpTo(PayloadByteValues, MaxLen)

TextInputs ==
  {TextField(Encode(encoding, str)) : encoding \in TextEncodings, str \in Strings}
    \cup {TextField(payload) : payload \in Payloads}
    \cup {TextField(payload) \o <<65>> : payload \in Payloads}
    \* a length above the bytes that follow
    \cup {LengthPrefix(Len(payload) + 1) \o payload : payload \in Payloads}
    \* the lengths -1, -2 and -2^31
    \cup {<<255, 255, 255, 255>> \o payload : payload \in Payloads}
    \cup {<<254, 255, 255, 255>>, <<0, 0, 0, 128>>}
    \* a source that ends inside the length
    \cup {<<>>, <<1>>, <<1, 0, 0>>}

\* one call of read_text on a fresh source, declared UTF-8
ReadTextUtf8 ==
  /\ caller = "text"
  /\ log = <<>>
  /\ Call("read_text", "UTF8", read_text(src, pos, "UTF8"))

\* one call of read_text on a fresh source, declared UTF-16LE
ReadTextUtf16le ==
  /\ caller = "text"
  /\ log = <<>>
  /\ Call("read_text", "UTF16LE", read_text(src, pos, "UTF16LE"))

InitText == caller = "text" /\ src \in TextInputs /\ pos = 0 /\ log = <<>>

NextText == ReadTextUtf8 \/ ReadTextUtf16le

SpecText == InitText /\ [][NextText]_vars

\* the outcomes a reader may end with
Taxonomy == {"ok", "InvalidHeader", "DecodeText", "IndexOverflow", "io"}

\* C1: every call ends with a decoded value or with one error of the
\* taxonomy, also when the length prefix of a text field is negative.
C1_OnlyTaxonomyOutcomes == \A i \in 1..Len(log) : log[i].kind \in Taxonomy

\* the length the source declares, and the payload of that length when the
\* source holds it
DeclaredLength == read_i32(src, 0).v

HasPayload == Len(src) >= 4 /\ DeclaredLength >= 0 /\ Len(src) >= 4 + DeclaredLength

Payload == SubSeq(src, 5, 4 + DeclaredLength)

\* the decoding of the payload in the declared encoding and in no other
StrictDecode(encoding, payload) ==
  IF encoding = "UTF8" THEN Utf8Decode(payload) ELSE Utf16leDecode(payload)

\* C6: a payload that is not valid in the declared encoding gives
\* DecodeText, and a string that is returned is the decoding of the payload
\* in the declared encoding (with or without the U+FEFF it starts with),
\* with nothing substituted.
C6_MalformedIsDecodeText ==
  \A i \in CallsOf("read_text") :
    HasPayload =>
      LET d == StrictDecode(log[i].arg, Payload)
      IN  /\ d.bad => log[i].kind = "DecodeText"
          /\ log[i].kind = "ok" =>
               (~d.bad /\ log[i].value \in {d.s, WithoutMark(d.s)})

\* C7: a string encoded in an encoding and prefixed with its byte length
\* is read back by read_text with that encoding as the same string, and
\* exactly 4 + length bytes are consumed.
C7_RoundTrip ==
  \A i \in CallsOf("read_text") :
    \A str \in Strings :
      src = TextField(Encode(log[i].arg, str)) =>
        /\ log[i].kind = "ok"
        /\ log[i].value = str
        /\ log[i].to = log[i].from + 4 + Len(Encode(log[i].arg, str))

\* the round trip of the strings that do not start with U+FEFF, U+FFFE or
\* U+BBEF, the characters whose encodings start like a byte order mark
RoundTripWithoutMark ==
  \A i \in CallsOf("read_text") :
    \A str \in Strings :
      (src = TextField(Encode(log[i].arg, str))
         /\ for_bom(Encode(log[i].arg, str)).enc = "none") =>
        /\ log[i].kind = "ok"
        /\ log[i].value = str
        /\ log[i].to = log[i].from + 4 + Len(Encode(log[i].arg, str))

====
